---- MODULE Spec2Model ----
(***************************************************************************)
(* MWEM (src/mechanisms/mwem.py): the adaptive select / measure /          *)
(* re-estimate loop of MWEM.run and its selector worst_approximated.       *)
(*                                                                         *)
(* Floating-point quantities are kept as exact rationals [n, d]; sigma and *)
(* exp_eps are kept as their radicands (sigma2, exp_eps2), the square root *)
(* being monotone on the non-negative values a valid run produces.         *)
(* The collaborators that live outside mwem.py (GraphicalModel.size, the   *)
(* engine's estimate, the model's synthetic_data, the Domain) are modelled *)
(* from their documented contracts.                                        *)
(***************************************************************************)
EXTENDS Integers, Sequences, FiniteSets, TLC

VARIABLES
    self,           \* the MWEM object: rounds, max_model_size, bounded, prng, rho
    workload,       \* run argument: sequence of cliques
    engine,         \* run argument: "FactoredInference" or "AdvancedSlicedInference"
    alpha,          \* run argument, a rational
    records,        \* run argument, <<>> for None or <<n>>
    pc,             \* position of run
    rounds,         \* local of run (line 94)
    rho_per_round,  \* local of run (line 96)
    sigma2,         \* radicand of sigma (line 97)
    exp_eps2,       \* radicand of exp_eps (line 98)
    total,          \* local of run (line 100), <<>> for None
    measurements,   \* local of run (line 109)
    est,            \* local of run: the current model
    loss,           \* local of run: <<>> while unbound, else <<value>>
    cliques,        \* local of run (line 119)
    i,              \* loop variable of line 120
    candidates,     \* local of run (lines 122-126)
    ax,             \* local of run: the clique selected in this round
    result,         \* what run returned: <<>> or <<synthetic dataset, loss>>
    exception,      \* what run raised: <<>> or <<name, line>>
    wa_workload,    \* the `workload` argument of the last worst_approximated call
    wa_est,         \* <<>> before any worst_approximated call, else <<its `est` argument>>
    estimate_log,   \* the arguments of every engine.estimate call so far
    drawn,          \* per random stream, the number of draws taken from it
    spent,          \* zCDP cost of the releases made so far
    phases          \* the phases of run completed so far

vars == <<self, workload, engine, alpha, records, pc, rounds, rho_per_round,
          sigma2, exp_eps2, total, measurements, est, loss, cliques, i,
          candidates, ax, result, exception, wa_workload, wa_est,
          estimate_log, drawn, spent, phases>>

----------------------------------------------------------------------------
(* Bounds of the model *)

MaxWorkload == 2
MaxRounds == 2

----------------------------------------------------------------------------
(* Exact arithmetic standing for the floats of lines 96-98 and 125 *)

Abs(x) == IF x < 0 THEN 0 - x ELSE x

RECURSIVE GCD(_, _)
GCD(a, b) == IF b = 0 THEN a ELSE GCD(b, a % b)

Rat(n, d) ==
    LET g == GCD(Abs(n), Abs(d))
        s == IF d < 0 THEN 0 - 1 ELSE 1
    IN  [n |-> (s * n) \div g, d |-> (s * d) \div g]

RInt(k) == [n |-> k, d |-> 1]
RAdd(a, b) == Rat(a.n * b.d + b.n * a.d, a.d * b.d)
RSub(a, b) == Rat(a.n * b.d - b.n * a.d, a.d * b.d)
RMul(a, b) == Rat(a.n * b.n, a.d * b.d)
RDiv(a, b) == Rat(a.n * b.d, a.d * b.n)
RLeq(a, b) == a.n * b.d <= b.n * a.d
RZero(a) == a.n = 0

Min(a, b) == IF a <= b THEN a ELSE b

----------------------------------------------------------------------------
(* The domain and the external collaborators *)

Attrs == {"A", "B", "C"}

Card == [a \in Attrs |-> IF a = "B" THEN 3 ELSE 2]

AttrsOf(cl) == {cl[k] : k \in 1..Len(cl)}

RECURSIVE SetProduct(_)
SetProduct(S) ==
    IF S = {} THEN 1
    ELSE LET a == CHOOSE x \in S : TRUE IN Card[a] * SetProduct(S \ {a})

\* domain.size(cl): product of the cardinalities of the clique's attributes
DomainSize(cl) == SetProduct(AttrsOf(cl))

\* The cliques a workload is built from
CliqueUniverse == {<<"A">>, <<"A", "B">>, <<"B", "C">>}

\* GraphicalModel(domain, cliques).size: the cells of the maximal cliques of
\* the graph over all domain attributes whose edges join attributes measured
\* together (a graph on three attributes is chordal, so these are the cliques
\* of its junction tree).
Joined(cls, S) ==
    \A a \in S : \A b \in S :
        a = b \/ \E k \in 1..Len(cls) : {a, b} \subseteq AttrsOf(cls[k])

MaximalCliques(cls) ==
    {S \in SUBSET Attrs :
        /\ S # {}
        /\ Joined(cls, S)
        /\ \A T \in SUBSET Attrs : (S \subseteq T /\ Joined(cls, T)) => T = S}

RECURSIVE SumCells(_)
SumCells(SS) ==
    IF SS = {} THEN 0
    ELSE LET S == CHOOSE x \in SS : TRUE IN SetProduct(S) + SumCells(SS \ {S})

GraphicalModelSize(cls) == SumCells(MaximalCliques(cls))

\* engine.estimate(measurements, total) -> (model, loss): a deterministic
\* function of the measurement sequence and the total.
Estimate(ms, tot) ==
    [model |-> [origin |-> "engine.estimate", fit |-> ms, total |-> tot],
     loss  |-> [fit |-> ms]]

\* One call of engine.estimate: the arguments it received and what it returned
EstimateCall(ms, tot) ==
    [args |-> [measurements |-> ms, total |-> tot], ret |-> Estimate(ms, tot)]

\* ParticleModel(domain, embedding, n_particles, data_init)
ParticleModelInit == [origin |-> "ParticleModel", fit |-> <<>>, total |-> <<>>]

\* data.records of the private dataset
DataRecords == 3

\* est.synthetic_data(records): N records when given, else the model's total
\* when it tracks one, else a model-determined count (0 stands for it).
SyntheticData(model, recs) ==
    [model |-> model,
     records |-> IF recs # <<>> THEN recs[1]
                 ELSE IF model.total # <<>> THEN model.total[1] ELSE 0]

----------------------------------------------------------------------------
(* Pieces of MWEM.run *)

\* Variant of line 94 that forgets the workload length: rounds = self.rounds
RoundsNoMin(wl, r) == r

\* line 94
Rounds(wl, r) == Min(Len(wl), r)

\* Variant of line 96 that gives every round the whole budget
RhoPerRoundWhole(rho, r) == rho

\* line 96
RhoPerRound(rho, r) == RDiv(rho, RInt(r))

\* line 97, under the square root
Sigma2(a, rpr) == RDiv(Rat(1, 2), RMul(a, rpr))

\* line 98, under the square root
ExpEps2(a, rpr) == RMul(RInt(8), RMul(RSub(RInt(1), a), rpr))

\* line 100
Total(bounded, data_records) == IF bounded THEN <<data_records>> ELSE <<>>

\* lines 102-103: size in MB
Size(cls) == RDiv(RMul(RInt(GraphicalModelSize(cls)), RInt(8)), RInt(2^20))

\* Variant of line 125 whose cap does not grow with the round
CapFlat(mms, k, r) == mms

\* line 125: the cap of round k
Cap(mms, k, r) == RDiv(RMul(mms, RInt(k)), RInt(r))

\* line 125
Admissible(cls, cl, mms, k, r) == RLeq(Size(Append(cls, cl)), Cap(mms, k, r))

\* Variant of lines 122-126 that drops the cliques already selected
CandidatesExcludingSelected(wl, cls, mms, k, r) ==
    SelectSeq(wl, LAMBDA cl : /\ Admissible(cls, cl, mms, k, r)
                              /\ cl \notin {cls[j] : j \in 1..Len(cls)})

\* lines 122-126
Candidates(wl, cls, mms, k, r) ==
    SelectSeq(wl, LAMBDA cl : Admissible(cls, cl, mms, k, r))

\* Variant of lines 110-118 that asks the engine for the initial model whatever
\* its family
InitialModelAlwaysEstimate(eng, ms, tot) ==
    LET c == EstimateCall(ms, tot)
    IN  [calls |-> <<c.args>>, model |-> c.ret.model]

\* lines 110-118: the initial model and the estimate calls made to get it
InitialModel(eng, ms, tot) ==
    IF eng = "FactoredInference"
    THEN LET c == EstimateCall(ms, tot)
         IN  [calls |-> <<c.args>>, model |-> c.ret.model]
    ELSE [calls |-> <<>>, model |-> ParticleModelInit]

\* Variant of line 120 that stops one round early: range(1, rounds)
LoopContinuesShort(k, r) == k < r

\* line 120: range(1, rounds + 1)
LoopContinues(k, r) == k <= r

\* lines 143-150: the measurement of clique cl with noise draw e
Measurement(cl, e) ==
    [Q |-> DomainSize(cl), y |-> [size |-> DomainSize(cl), noise |-> e],
     w |-> 1, cl |-> cl]

\* line 150
AppendMeasurement(ms, m) == Append(ms, m)

\* Variant of line 151 that refits from the latest measurement only
RefitLatestOnly(ms, tot) == EstimateCall(<<ms[Len(ms)]>>, tot)

\* line 151
Refit(ms, tot) == EstimateCall(ms, tot)

\* lines 70 and 146: the stream the draws are taken from
DrawStream(prng) == "np.random"

\* zCDP cost of one exponential-mechanism draw of strength eps (eps^2 / 8)
SelectionCost(eps2) == RDiv(eps2, RInt(8))

\* zCDP cost of one Gaussian release with noise multiplier sigma (1 / (2 sigma^2))
MeasurementCost(s2) == RDiv(Rat(1, 2), s2)

----------------------------------------------------------------------------
(* Inputs *)

RECURSIVE SeqsUpTo(_, _)
SeqsUpTo(S, n) ==
    IF n = 0 THEN {<<>>}
    ELSE LET shorter == SeqsUpTo(S, n - 1)
         IN  shorter \cup {Append(s, x) : s \in {t \in shorter : Len(t) = n - 1}, x \in S}

Workloads == SeqsUpTo(CliqueUniverse, MaxWorkload)

\* alpha, over the closed interval [0, 1]; 9/10 is the default
AlphaValues == {Rat(0, 10), Rat(9, 10), Rat(10, 10)}

\* max_model_size in MB, written as a number of 8-byte cells
MaxModelSizes == {RDiv(RInt(c * 8), RInt(2^20)) : c \in {6, 14, 24}}

\* self.rho, the zCDP budget the parent mechanism derives from epsilon and
\* delta (0 when delta is 0)
RhoValues == {Rat(0, 1), Rat(1, 2)}

Streams == {"np.random", "RandomState"}

NoiseDraws == {0, 1}

Init ==
    /\ self \in [rounds : (0 - 1)..MaxRounds,
                 max_model_size : MaxModelSizes,
                 bounded : BOOLEAN,
                 prng : Streams,
                 rho : RhoValues]
    /\ workload \in Workloads
    /\ engine \in {"FactoredInference", "AdvancedSlicedInference"}
    /\ alpha \in AlphaValues
    /\ records \in {<<>>, <<2>>}
    /\ pc = "start"
    /\ rounds = 0
    /\ rho_per_round = RInt(0)
    /\ sigma2 = RInt(0)
    /\ exp_eps2 = RInt(0)
    /\ total = <<>>
    /\ measurements = <<>>
    /\ est = <<>>
    /\ loss = <<>>
    /\ cliques = <<>>
    /\ i = 0
    /\ candidates = <<>>
    /\ ax = <<>>
    /\ result = <<>>
    /\ exception = <<>>
    /\ wa_workload = <<>>
    /\ wa_est = <<>>
    /\ estimate_log = <<>>
    /\ drawn = [s \in Streams |-> 0]
    /\ spent = RInt(0)
    /\ phases = <<>>

----------------------------------------------------------------------------
(* Actions *)

Raise(name, line) ==
    /\ pc' = "raised"
    /\ exception' = <<name, line>>

\* lines 94-107. rho, alpha and rounds are Python numbers, so a zero divisor at
\* line 96 or 97 raises ZeroDivisionError.
Setup ==
    /\ pc = "start"
    /\ LET r == Rounds(workload, self.rounds) IN
       /\ rounds' = r
       /\ IF r = 0
          THEN /\ Raise("ZeroDivisionError", 96)
               /\ UNCHANGED <<rho_per_round, sigma2, exp_eps2, total>>
          ELSE LET rpr == RhoPerRound(self.rho, r) IN
               /\ rho_per_round' = rpr
               /\ IF RZero(RMul(alpha, rpr))
                  THEN /\ Raise("ZeroDivisionError", 97)
                       /\ UNCHANGED <<sigma2, exp_eps2, total>>
                  ELSE /\ sigma2' = Sigma2(alpha, rpr)
                       /\ exp_eps2' = ExpEps2(alpha, rpr)
                       /\ total' = Total(self.bounded, DataRecords)
                       /\ pc' = "init"
                       /\ UNCHANGED exception
    /\ UNCHANGED <<self, workload, engine, alpha, records, measurements, est,
                   loss, cliques, i, candidates, ax, result, wa_workload,
                   wa_est, estimate_log, drawn, spent, phases>>

\* lines 109-120
InitModel ==
    /\ pc = "init"
    /\ measurements' = <<>>
    /\ LET m == InitialModel(engine, <<>>, total) IN
       /\ est' = m.model
       /\ estimate_log' = estimate_log \o m.calls
    /\ cliques' = <<>>
    /\ i' = 1
    /\ phases' = Append(phases, "INIT")
    /\ pc' = "loop"
    /\ UNCHANGED <<self, workload, engine, alpha, records, rounds,
                   rho_per_round, sigma2, exp_eps2, total, loss, candidates,
                   ax, result, exception, wa_workload, wa_est, drawn, spent>>

\* lines 62-71: worst_approximated(workload_answers, model, wl, eps)
WorstApproximated(model, wl) ==
    /\ wa_workload' = wl
    /\ wa_est' = <<model>>
    /\ IF wl = <<>>
       THEN \* errors.max() of an empty array
            /\ Raise("ValueError", 69)
            /\ UNCHANGED <<ax, drawn, spent, phases>>
       ELSE \* every candidate has positive probability under the softmax
            /\ \E key \in 1..Len(wl) : ax' = wl[key]
            /\ drawn' = [drawn EXCEPT ![DrawStream(self.prng)] = @ + 1]
            /\ spent' = RAdd(spent, SelectionCost(exp_eps2))
            /\ phases' = Append(phases, "SELECT")
            /\ pc' = "measure"
            /\ UNCHANGED exception

\* lines 120-126
ComputeCandidates ==
    /\ pc = "loop"
    /\ LoopContinues(i, rounds)
    /\ engine = "FactoredInference"
    /\ candidates' = Candidates(workload, cliques, self.max_model_size, i, rounds)
    /\ pc' = "select"
    /\ UNCHANGED <<self, workload, engine, alpha, records, rounds,
                   rho_per_round, sigma2, exp_eps2, total, measurements, est,
                   loss, cliques, i, ax, result, exception, wa_workload,
                   wa_est, estimate_log, drawn, spent, phases>>

\* lines 127-137
SelectCandidate ==
    /\ pc = "select"
    /\ WorstApproximated(est, candidates)
    /\ UNCHANGED <<self, workload, engine, alpha, records, rounds,
                   rho_per_round, sigma2, exp_eps2, total, measurements, est,
                   loss, cliques, i, candidates, result, estimate_log>>

\* lines 120, 138-141
SelectWorkload ==
    /\ pc = "loop"
    /\ LoopContinues(i, rounds)
    /\ engine # "FactoredInference"
    /\ WorstApproximated(est, workload)
    /\ UNCHANGED <<self, workload, engine, alpha, records, rounds,
                   rho_per_round, sigma2, exp_eps2, total, measurements, est,
                   loss, cliques, i, candidates, result, estimate_log>>

\* lines 143-150
Measure ==
    /\ pc = "measure"
    /\ \E e \in NoiseDraws :
          measurements' = AppendMeasurement(measurements, Measurement(ax, e))
    /\ drawn' = [drawn EXCEPT ![DrawStream(self.prng)] = @ + 1]
    /\ spent' = RAdd(spent, MeasurementCost(sigma2))
    /\ phases' = Append(phases, "MEASURE")
    /\ pc' = "reestimate"
    /\ UNCHANGED <<self, workload, engine, alpha, records, rounds,
                   rho_per_round, sigma2, exp_eps2, total, est, loss, cliques,
                   i, candidates, ax, result, exception, wa_workload, wa_est,
                   estimate_log>>

\* lines 151-152, and the step of the loop
Reestimate ==
    /\ pc = "reestimate"
    /\ LET c == Refit(measurements, total) IN
       /\ est' = c.ret.model
       /\ loss' = <<c.ret.loss>>
       /\ estimate_log' = Append(estimate_log, c.args)
    /\ cliques' = Append(cliques, ax)
    /\ i' = i + 1
    /\ phases' = Append(phases, "REESTIMATE")
    /\ pc' = "loop"
    /\ UNCHANGED <<self, workload, engine, alpha, records, rounds,
                   rho_per_round, sigma2, exp_eps2, total, measurements,
                   candidates, ax, result, exception, wa_workload, wa_est,
                   drawn, spent>>

\* lines 154-155
Synthesize ==
    /\ pc = "loop"
    /\ ~LoopContinues(i, rounds)
    /\ IF loss = <<>>
       THEN \* `loss` is read before any round bound it
            /\ Raise("UnboundLocalError", 155)
            /\ UNCHANGED <<result, phases>>
       ELSE /\ result' = <<SyntheticData(est, records), loss[1]>>
            /\ phases' = Append(phases, "SYNTHESIZE")
            /\ pc' = "done"
            /\ UNCHANGED exception
    /\ UNCHANGED <<self, workload, engine, alpha, records, rounds,
                   rho_per_round, sigma2, exp_eps2, total, measurements, est,
                   loss, cliques, i, candidates, ax, wa_workload, wa_est,
                   estimate_log, drawn, spent>>

Next ==
    \/ Setup
    \/ InitModel
    \/ ComputeCandidates
    \/ SelectCandidate
    \/ SelectWorkload
    \/ Measure
    \/ Reestimate
    \/ Synthesize

Spec == Init /\ [][Next]_vars

----------------------------------------------------------------------------
(* Properties *)

\* R = min(|workload|, rounds), from the inputs of the run
R == IF Len(workload) <= self.rounds THEN Len(workload) ELSE self.rounds

SizeAware == engine = "FactoredInference"

TotalOfRun == IF self.bounded THEN <<DataRecords>> ELSE <<>>

IsPrefix(s, t) == Len(s) <= Len(t) /\ SubSeq(t, 1, Len(s)) = s

Elems(s) == {s[k] : k \in 1..Len(s)}

\* a rational times an integer over an integer, from numerators and denominators
Scaled(q, k, m) == [n |-> q.n * k, d |-> q.d * m]

SameRat(a, b) == a.n * b.d = b.n * a.d

\* clique cl fits the cap of the round that follows the completed ones:
\* size(cliques + [cl]) in MB <= max_model_size * (completed + 1) / R
FitsCap(cl) ==
    GraphicalModelSize(Append(cliques, cl)) * 8 * R * self.max_model_size.d
       <= self.max_model_size.n * (Len(cliques) + 1) * 2^20

\* C1: the measurement log starts empty, holds one entry per round whose
\* measurement has been taken (i - 1 entries before the append of round i, i
\* after it), only ever grows by one appended entry that leaves the earlier
\* entries as they were, and holds exactly R = min(|workload|, rounds) entries
\* when run returns.
C1_LogState ==
    /\ pc \in {"start", "init"} => measurements = <<>>
    /\ pc \in {"loop", "select", "measure"} =>
          /\ Len(measurements) = Len(cliques)
          /\ Len(measurements) = i - 1
    /\ pc = "reestimate" =>
          /\ Len(measurements) = Len(cliques) + 1
          /\ Len(measurements) = i
    /\ Len(measurements) <= IF R > 0 THEN R ELSE 0
    /\ pc = "done" => Len(measurements) = R

C1_LogStep ==
    \/ measurements' = measurements
    \/ /\ Len(measurements') = Len(measurements) + 1
       /\ SubSeq(measurements', 1, Len(measurements)) = measurements

\* C1: the log always satisfies C1_LogState and every step is a C1_LogStep
\* (one append at most, earlier entries untouched).
C1_MeasurementLog == []C1_LogState /\ [][C1_LogStep]_vars

C1_Witness ==
    /\ pc = "done"
    /\ Len(measurements) = 2
    /\ self.rounds = 2

\* C2: with a size-aware engine, the clique selected in round i keeps the
\* model size over already_selected + [selected] within max_model_size * i / R,
\* and the size of the cliques committed when run returns is within
\* max_model_size.
C2_SizeCap ==
    SizeAware =>
        /\ pc \in {"measure", "reestimate"} =>
              GraphicalModelSize(Append(cliques, ax)) * 8 * R * self.max_model_size.d
                 <= self.max_model_size.n * (Len(cliques) + 1) * 2^20
        /\ pc \in {"loop", "select", "done"} /\ cliques # <<>> =>
              GraphicalModelSize(cliques) * 8 * R * self.max_model_size.d
                 <= self.max_model_size.n * Len(cliques) * 2^20
        /\ pc = "done" =>
              GraphicalModelSize(cliques) * 8 * self.max_model_size.d
                 <= self.max_model_size.n * 2^20

C2_Witness ==
    /\ SizeAware
    /\ pc = "done"
    /\ cliques = << <<"A">>, <<"A", "B">> >>
    /\ ~Admissible(<<>>, <<"A", "B">>, self.max_model_size, 1, 2)

\* C3: with a size-aware engine, a round in which no workload clique fits the
\* cap ends in a candidate-exhaustion error, and worst_approximated is never
\* called with an empty candidate set.
C3_NoAdmissibleCandidate ==
    /\ SizeAware
    /\ R > 0
    /\ Len(cliques) < R
    /\ \A k \in 1..Len(workload) : ~FitsCap(workload[k])

\* C3: the selector is never called with an empty candidate set, and a round
\* without admissible candidate ends in a candidate-exhaustion error.
C3_ExhaustionSurfaced ==
    /\ wa_est # <<>> => wa_workload # <<>>
    /\ (C3_NoAdmissibleCandidate /\ pc = "raised" /\ phases # <<>>) =>
          exception[1] = "CandidateExhaustionError"

\* C4: a run with R <= 0, rho <= 0 or alpha outside (0,1) fails: it never
\* completes and never returns a synthetic dataset.
C4_InvalidConfiguration ==
    \/ R <= 0
    \/ self.rho.n <= 0
    \/ alpha.n <= 0
    \/ alpha.n >= alpha.d

\* C4: an invalid configuration never completes and returns nothing.
C4_ConfigurationRejected ==
    C4_InvalidConfiguration =>
        /\ pc # "done"
        /\ result = <<>>

\* C5: the phases of a run are INIT, then SELECT, MEASURE, REESTIMATE repeated
\* R times, then SYNTHESIZE, in this order with none skipped; the selection of
\* a round after the first is made with the model the previous round's
\* re-estimation returned; and run returns the synthetic data of the model of
\* round R with the loss of round R.
RECURSIVE RoundPhases(_)
RoundPhases(n) ==
    IF n <= 0 THEN <<>>
    ELSE RoundPhases(n - 1) \o <<"SELECT", "MEASURE", "REESTIMATE">>

ExpectedPhases == <<"INIT">> \o RoundPhases(R) \o <<"SYNTHESIZE">>

C5_RoundOrder ==
    /\ IsPrefix(phases, ExpectedPhases)
    /\ pc = "done" =>
          /\ phases = ExpectedPhases
          /\ Len(cliques) = R
          /\ estimate_log[Len(estimate_log)].measurements = measurements
          /\ result = <<SyntheticData(Estimate(measurements, TotalOfRun).model, records),
                        Estimate(measurements, TotalOfRun).loss>>
    /\ pc = "measure" /\ cliques # <<>> =>
          /\ Len(measurements) = Len(cliques)
          /\ wa_est = <<Estimate(measurements, TotalOfRun).model>>

C5_Witness ==
    /\ pc = "done"
    /\ Len(cliques) = 2
    /\ Len(phases) = 8

\* C6: the budget is partitioned exactly: rho_per_round is rho / R, each round
\* spends (1 - alpha) * rho / R on its selection draw and alpha * rho / R on
\* its measurement, what has been spent never decreases and never exceeds rho,
\* and equals rho when run returns.
C6_BudgetState ==
    /\ RLeq(spent, self.rho)
    /\ pc \in {"init", "loop", "select", "measure", "reestimate", "done"} =>
          SameRat(rho_per_round, Scaled(self.rho, 1, R))
    /\ pc \in {"loop", "select"} /\ R > 0 =>
          SameRat(spent, Scaled(self.rho, Len(cliques), R))
    /\ pc = "measure" =>
          SameRat(spent, Scaled(self.rho,
                                Len(cliques) * alpha.d + (alpha.d - alpha.n),
                                R * alpha.d))
    /\ pc = "reestimate" =>
          SameRat(spent, Scaled(self.rho, Len(cliques) + 1, R))
    /\ pc = "done" => SameRat(spent, self.rho)

\* C6: the budget always satisfies C6_BudgetState and what has been spent
\* never decreases.
C6_BudgetPartition == []C6_BudgetState /\ [][RLeq(spent, spent')]_vars

C6_Witness ==
    /\ pc = "done"
    /\ Len(cliques) = 2
    /\ SameRat(spent, self.rho)
    /\ alpha = Rat(9, 10)

\* C7: every random draw of a run is taken from the mechanism's own
\* pseudo-random source, so that seeding it fixes the whole run.
C7_SingleStream == \A s \in Streams : s # self.prng => drawn[s] = 0

\* C8: after the re-estimation of round i the estimator has been called with
\* the whole measurement log, the i measurements of rounds 1..i in the order
\* they were taken, and with data.records when bounded and None otherwise;
\* the model it returned is the current model and its loss is recorded.
C8_ReestimateWholeLog ==
    (pc \in {"loop", "select"} /\ cliques # <<>>) =>
        LET call == estimate_log[Len(estimate_log)] IN
        /\ call.measurements = measurements
        /\ Len(call.measurements) = Len(cliques)
        /\ \A k \in 1..Len(cliques) : call.measurements[k].cl = cliques[k]
        /\ call.total = TotalOfRun
        /\ est = Estimate(measurements, TotalOfRun).model
        /\ est.fit = measurements
        /\ loss = <<Estimate(measurements, TotalOfRun).loss>>

C8_Witness ==
    /\ pc = "loop"
    /\ Len(cliques) = 2
    /\ cliques[1] # cliques[2]
    /\ ~self.bounded

\* C9 as stated: for every engine family the model of the round-1 selection
\* comes from one estimator call with an empty measurement log, made before
\* any selection or measurement.
C9_InitialModelFromEstimator ==
    (wa_est # <<>> /\ cliques = <<>>) =>
        /\ Len(estimate_log) >= 1
        /\ estimate_log[1].measurements = <<>>
        /\ wa_est = <<Estimate(<<>>, TotalOfRun).model>>

\* C9 amended: for a size-aware engine the model of the round-1 selection
\* comes from one estimator call with an empty measurement log; for a
\* particle-based engine it is a ParticleModel built directly, with no
\* estimator call; in both cases before any selection or measurement, and it
\* is the model the round-1 selection is made with.
C9_InitialModelByFamily ==
    /\ (pc = "loop" /\ cliques = <<>>) =>
          /\ phases = <<"INIT">>
          /\ measurements = <<>>
          /\ IF SizeAware
             THEN /\ Len(estimate_log) = 1
                  /\ estimate_log[1].measurements = <<>>
                  /\ estimate_log[1].total = TotalOfRun
                  /\ est = Estimate(<<>>, TotalOfRun).model
             ELSE /\ estimate_log = <<>>
                  /\ est = ParticleModelInit
    /\ (wa_est # <<>> /\ cliques = <<>>) =>
          wa_est = <<IF SizeAware THEN Estimate(<<>>, TotalOfRun).model
                     ELSE ParticleModelInit>>

C9_Witness ==
    /\ ~SizeAware
    /\ pc = "measure"
    /\ cliques = <<>>
    /\ wa_est = <<ParticleModelInit>>

\* C10: the selector is given the full workload every round by a
\* particle-based engine, and exactly the workload cliques that fit the cap of
\* the round by a size-aware engine; no clique is left out for having been
\* selected before, and every clique selected in an earlier round is again
\* among the candidates.
C10_NoExclusion ==
    (wa_est # <<>> /\ (pc \in {"measure", "reestimate"} \/ (pc = "raised" /\ phases # <<>>))) =>
        /\ ~SizeAware => wa_workload = workload
        /\ SizeAware => wa_workload = SelectSeq(workload, FitsCap)
        /\ Elems(cliques) \subseteq Elems(wa_workload)

C10_Witness ==
    /\ SizeAware
    /\ pc = "measure"
    /\ Len(cliques) = 1
    /\ ax = cliques[1]
    /\ Len(wa_workload) = 2

====
